---- MODULE Spec2Model ----
(***************************************************************************)
(* Furion Render Helper (src/__init__.py): the batch operator              *)
(* RENDER_OT_specific_frames, the pattern engine, the compositor setup of  *)
(* a render pass and the preference file.  A text (str) is a sequence of   *)
(* one-character strings, so that strip, split, replace and int act on     *)
(* characters as in Python.                                                *)
(***************************************************************************)
EXTENDS Integers, Sequences, FiniteSets, TLC

\* ------------------------------------------------------------------ bounds

\* frame_list texts of the resolver specification: every text of at most
\* MaxLen characters over Alphabet.
MaxLen == 5

Alphabet == {"0", "1", "-", ",", " ", "a"}

Texts == UNION {[1..n -> Alphabet] : n \in 0..MaxLen}

\* ------------------------------------------------------------ str helpers

Digits == {"0", "1", "2", "3", "4", "5", "6", "7", "8", "9"}

DigitVal(c) ==
    CASE c = "0" -> 0 [] c = "1" -> 1 [] c = "2" -> 2 [] c = "3" -> 3
      [] c = "4" -> 4 [] c = "5" -> 5 [] c = "6" -> 6 [] c = "7" -> 7
      [] c = "8" -> 8 [] c = "9" -> 9

\* str.strip(): the text without its leading and trailing whitespace.
RECURSIVE LStrip(_)
LStrip(s) == IF s # <<>> /\ Head(s) = " " THEN LStrip(Tail(s)) ELSE s

RECURSIVE RStrip(_)
RStrip(s) ==
    IF s # <<>> /\ s[Len(s)] = " " THEN RStrip(SubSeq(s, 1, Len(s) - 1)) ELSE s

Strip(s) == RStrip(LStrip(s))

\* c in s
Contains(s, c) == \E i \in 1..Len(s) : s[i] = c

\* str.split(sep) for a one-character sep: never empty, "" gives [""].
RECURSIVE SplitFrom(_, _, _)
SplitFrom(s, sep, cur) ==
    IF s = <<>> THEN <<cur>>
    ELSE IF Head(s) = sep THEN <<cur>> \o SplitFrom(Tail(s), sep, <<>>)
    ELSE SplitFrom(Tail(s), sep, Append(cur, Head(s)))

Split(s, sep) == SplitFrom(s, sep, <<>>)

\* int(s): whether it returns (TRUE) or raises ValueError (FALSE).  int
\* ignores surrounding whitespace and takes an optional sign before the
\* decimal digits.
IntBody(s) ==
    LET t == Strip(s) IN
    IF t # <<>> /\ Head(t) \in {"-", "+"} THEN Tail(t) ELSE t

IntOk(s) == LET b == IntBody(s) IN b # <<>> /\ \A i \in 1..Len(b) : b[i] \in Digits

RECURSIVE DecimalValue(_)
DecimalValue(b) ==
    IF b = <<>> THEN 0
    ELSE 10 * DecimalValue(SubSeq(b, 1, Len(b) - 1)) + DigitVal(b[Len(b)])

IntValue(s) ==
    LET t == Strip(s) IN
    IF t # <<>> /\ Head(t) = "-" THEN 0 - DecimalValue(IntBody(s))
    ELSE DecimalValue(IntBody(s))

\* list(range(a, b + 1))
RangeList(a, b) == [i \in 1..(b - a + 1) |-> a + i - 1]

SeqToSet(xs) == {xs[i] : i \in 1..Len(xs)}

\* sorted(list(S)) for a set S of integers within lo..hi, by halving.
RECURSIVE SortedBetween(_, _, _)
SortedBetween(S, lo, hi) ==
    IF S = {} THEN <<>>
    ELSE IF lo = hi THEN <<lo>>
    ELSE LET mid == (lo + hi) \div 2 IN
         SortedBetween({x \in S : x <= mid}, lo, mid)
           \o SortedBetween({x \in S : x > mid}, mid + 1, hi)

SetMin(S) == CHOOSE x \in S : \A y \in S : x <= y
SetMax(S) == CHOOSE x \in S : \A y \in S : x >= y

\* A faulty variant of SortedSet: line 899 left out, the frames stay as typed.
SortedSetUnsorted(xs) == xs

\* sorted(list(set(xs)))
SortedSet(xs) ==
    LET S == SeqToSet(xs) IN
    IF S = {} THEN <<>> ELSE SortedBetween(S, SetMin(S), SetMax(S))

\* ------------------------------------------------- execute: the frame list

\* A faulty variant of ParseToken: line 874 tests len(range_parts) >= 2, so
\* the parts after the second are ignored.
ParseTokenTwoOrMore(frame_str) ==
    IF Contains(frame_str, "-") THEN
        LET range_parts == Split(frame_str, "-") IN
        IF Len(range_parts) >= 2 THEN
            IF ~IntOk(range_parts[1]) \/ ~IntOk(range_parts[2]) THEN
                [kind |-> "Invalid frame number or range", frames |-> <<>>]
            ELSE
                LET start_frame == IntValue(range_parts[1])
                    end_frame == IntValue(range_parts[2]) IN
                IF start_frame <= end_frame THEN
                    [kind |-> "extend", frames |-> RangeList(start_frame, end_frame)]
                ELSE [kind |-> "Invalid range", frames |-> <<>>]
        ELSE [kind |-> "Invalid range format", frames |-> <<>>]
    ELSE IF IntOk(frame_str) THEN
        [kind |-> "extend", frames |-> <<IntValue(frame_str)>>]
    ELSE [kind |-> "Invalid frame number or range", frames |-> <<>>]

\* A faulty variant of ParseToken: the test of line 877 left out, so a range
\* with start > end extends the list by range(start, end + 1), which is empty.
ParseTokenNoOrderCheck(frame_str) ==
    IF Contains(frame_str, "-") THEN
        LET range_parts == Split(frame_str, "-") IN
        IF Len(range_parts) = 2 THEN
            IF ~IntOk(range_parts[1]) \/ ~IntOk(range_parts[2]) THEN
                [kind |-> "Invalid frame number or range", frames |-> <<>>]
            ELSE
                LET start_frame == IntValue(range_parts[1])
                    end_frame == IntValue(range_parts[2]) IN
                [kind |-> "extend", frames |-> RangeList(start_frame, end_frame)]
        ELSE [kind |-> "Invalid range format", frames |-> <<>>]
    ELSE IF IntOk(frame_str) THEN
        [kind |-> "extend", frames |-> <<IntValue(frame_str)>>]
    ELSE [kind |-> "Invalid frame number or range", frames |-> <<>>]

\* One token of the frame list (lines 867-892): what the loop body does
\* with frame_str, already stripped and non-empty.  "extend" carries the
\* frames appended to frame_numbers; an error carries the report made
\* before return {'CANCELLED'}.
ParseToken(frame_str) ==
    IF Contains(frame_str, "-") THEN
        LET range_parts == Split(frame_str, "-") IN
        IF Len(range_parts) = 2 THEN
            IF ~IntOk(range_parts[1]) \/ ~IntOk(range_parts[2]) THEN
                [kind |-> "Invalid frame number or range", frames |-> <<>>]
            ELSE
                LET start_frame == IntValue(range_parts[1])
                    end_frame == IntValue(range_parts[2]) IN
                IF start_frame <= end_frame THEN
                    [kind |-> "extend", frames |-> RangeList(start_frame, end_frame)]
                ELSE [kind |-> "Invalid range", frames |-> <<>>]
        ELSE [kind |-> "Invalid range format", frames |-> <<>>]
    ELSE IF IntOk(frame_str) THEN
        [kind |-> "extend", frames |-> <<IntValue(frame_str)>>]
    ELSE [kind |-> "Invalid frame number or range", frames |-> <<>>]

\* A faulty variant of EmptyToken: no token is skipped.
EmptyTokenNever(frame_str) == FALSE

\* The test of line 868: a token that is empty once stripped is skipped.
EmptyToken(frame_str) == frame_str = <<>>

\* The loop over frame_string.split(',') (lines 865-892), from token i with
\* frame_numbers accumulated so far: the first failing token ends it.
RECURSIVE ParseTokens(_, _, _)
ParseTokens(tokens, i, frame_numbers) ==
    IF i > Len(tokens) THEN [kind |-> "ok", frames |-> frame_numbers]
    ELSE LET frame_str == Strip(tokens[i]) IN
         IF EmptyToken(frame_str) THEN ParseTokens(tokens, i + 1, frame_numbers)
         ELSE LET r == ParseToken(frame_str) IN
              IF r.kind = "extend"
              THEN ParseTokens(tokens, i + 1, frame_numbers \o r.frames)
              ELSE r

\* A faulty variant of ParseFrameList: the test of lines 894-896 left out.
ParseFrameListNoEmptyCheck(frame_list) ==
    LET frame_string == Strip(frame_list) IN
    IF frame_string = <<>> THEN
        [kind |-> "Please enter frame numbers", frames |-> <<>>]
    ELSE LET r == ParseTokens(Split(frame_string, ","), 1, <<>>) IN
         IF r.kind # "ok" THEN r
         ELSE [kind |-> "ok", frames |-> SortedSet(r.frames)]

\* Lines 859-899: the frame list of a text, or the error reported.
ParseFrameList(frame_list) ==
    LET frame_string == Strip(frame_list) IN
    IF frame_string = <<>> THEN
        [kind |-> "Please enter frame numbers", frames |-> <<>>]
    ELSE LET r == ParseTokens(Split(frame_string, ","), 1, <<>>) IN
         IF r.kind # "ok" THEN r
         ELSE IF r.frames = <<>> THEN
             [kind |-> "No valid frame numbers found", frames |-> <<>>]
         ELSE [kind |-> "ok", frames |-> SortedSet(r.frames)]

ParseErrors ==
    {"Please enter frame numbers", "Invalid range", "Invalid range format",
     "Invalid frame number or range", "No valid frame numbers found"}

\* ------------------------------------------------------------- os.path

StartsWith(s, p) == Len(s) >= Len(p) /\ SubSeq(s, 1, Len(p)) = p

\* The index of the last occurrence of the character c in s, or 0.
LastIndexOf(s, c) ==
    LET I == {i \in 1..Len(s) : s[i] = c} IN
    IF I = {} THEN 0 ELSE CHOOSE i \in I : \A j \in I : j <= i

RECURSIVE RStripChar(_, _)
RStripChar(s, c) ==
    IF s # <<>> /\ s[Len(s)] = c THEN RStripChar(SubSeq(s, 1, Len(s) - 1), c)
    ELSE s

\* os.path.basename(p)
Basename(p) == SubSeq(p, LastIndexOf(p, "/") + 1, Len(p))

\* os.path.dirname(p)
Dirname(p) ==
    LET head == SubSeq(p, 1, LastIndexOf(p, "/")) IN
    IF head # <<>> /\ \E i \in 1..Len(head) : head[i] # "/"
    THEN RStripChar(head, "/") ELSE head

\* os.path.splitext(name)[0] for a name without a separator: the last dot
\* starts the extension unless only dots precede it.
SplitextRoot(name) ==
    LET i == LastIndexOf(name, ".") IN
    IF i > 0 /\ \E j \in 1..(i - 1) : name[j] # "."
    THEN SubSeq(name, 1, i - 1) ELSE name

\* os.path.join(a, b)
PathJoin(a, b) ==
    IF StartsWith(b, <<"/">>) THEN b
    ELSE IF a = <<>> \/ a[Len(a)] = "/" THEN a \o b
    ELSE a \o <<"/">> \o b

\* ------------------------------------------- generate_filename_from_pattern

\* str.replace(old, new), old non-empty: every non-overlapping occurrence,
\* left to right; the text put in is not scanned again.
RECURSIVE Replace(_, _, _)
Replace(s, old, new) ==
    IF Len(s) < Len(old) THEN s
    ELSE IF s[1] = old[1] /\ SubSeq(s, 1, Len(old)) = old
         THEN new \o Replace(SubSeq(s, Len(old) + 1, Len(s)), old, new)
         ELSE <<Head(s)>> \o Replace(Tail(s), old, new)

\* Whether old occurs in s ("old in s").
RECURSIVE Occurs(_, _)
Occurs(old, s) ==
    IF Len(s) < Len(old) THEN FALSE
    ELSE (s[1] = old[1] /\ SubSeq(s, 1, Len(old)) = old) \/ Occurs(old, Tail(s))

DigitChar(d) ==
    CASE d = 0 -> "0" [] d = 1 -> "1" [] d = 2 -> "2" [] d = 3 -> "3"
      [] d = 4 -> "4" [] d = 5 -> "5" [] d = 6 -> "6" [] d = 7 -> "7"
      [] d = 8 -> "8" [] d = 9 -> "9"

\* str(n) for n >= 0
RECURSIVE NatStr(_)
NatStr(n) ==
    IF n < 10 THEN <<DigitChar(n)>>
    ELSE Append(NatStr(n \div 10), DigitChar(n % 10))

RECURSIVE ZeroPad(_, _)
ZeroPad(s, width) == IF Len(s) >= width THEN s ELSE ZeroPad(<<"0">> \o s, width)

\* f"{n:04d}": the sign counts in the width of 4.
Format04d(n) ==
    IF n >= 0 THEN ZeroPad(NatStr(n), 4)
    ELSE <<"-">> \o ZeroPad(NatStr(0 - n), 3)

\* The clock: a datetime is a number of seconds after EpochSecond on the
\* day and minute of the documented example (2025-10-18 17:21); MaxClock
\* bounds the seconds that pass, so the minute never rolls over.
MaxClock == 1

EpochSecond == 18

\* None, where a text is expected, and where a datetime is expected.
None == <<"None">>

NoTime == 0 - 1

\* dt.strftime(py_format) for the directives the translation produces;
\* every other character is copied.
RECURSIVE Strftime(_, _)
Strftime(dt, py_format) ==
    IF py_format = <<>> THEN <<>>
    ELSE IF Len(py_format) >= 2 /\ py_format[1] = "%"
              /\ py_format[2] \in {"Y", "m", "d", "H", "M", "S"}
         THEN (CASE py_format[2] = "Y" -> <<"2", "0", "2", "5">>
                 [] py_format[2] = "m" -> <<"1", "0">>
                 [] py_format[2] = "d" -> <<"1", "8">>
                 [] py_format[2] = "H" -> <<"1", "7">>
                 [] py_format[2] = "M" -> <<"2", "1">>
                 [] py_format[2] = "S" -> ZeroPad(NatStr(EpochSecond + dt), 2))
               \o Strftime(dt, SubSeq(py_format, 3, Len(py_format)))
         ELSE <<Head(py_format)>> \o Strftime(dt, Tail(py_format))

\* replace_datetime_token (lines 430-457): the text for one matched token.
\* now is the reading of datetime.now().
replace_datetime_token(token_type, datetime_format, start_time, end_time, now) ==
    LET dt == IF token_type = "Start" /\ start_time # NoTime THEN start_time
              ELSE IF token_type = "End" /\ end_time # NoTime THEN end_time
              ELSE now
        f1 == Replace(datetime_format, <<"y", "y", "y", "y">>, <<"%", "Y">>)
        f2 == Replace(f1, <<"M", "M">>, <<"%", "m">>)
        f3 == Replace(f2, <<"d", "d">>, <<"%", "d">>)
        f4 == Replace(f3, <<"H", "H">>, <<"%", "H">>)
        f5 == Replace(f4, <<"m", "m">>, <<"%", "M">>)
        py_format == Replace(f5, <<"s", "s">>, <<"%", "S">>)
    IN Strftime(dt, py_format)

\* The index of the first ")" of s, or 0.
FirstClose(s) ==
    LET I == {i \in 1..Len(s) : s[i] = ")"} IN
    IF I = {} THEN 0 ELSE CHOOSE i \in I : \A j \in I : i <= j

\* re.sub(r'\((Start|End):([^)]+)\)', replace_datetime_token, s), line 460.
RECURSIVE SubDatetime(_, _, _, _)
SubDatetime(s, start_time, end_time, now) ==
    IF s = <<>> THEN <<>>
    ELSE
      LET open == IF s[1] # "(" THEN 0
                  ELSE IF StartsWith(s, <<"(", "S", "t", "a", "r", "t", ":">>) THEN 7
                  ELSE IF StartsWith(s, <<"(", "E", "n", "d", ":">>) THEN 5
                  ELSE 0
          rest == SubSeq(s, open + 1, Len(s))
          close == FirstClose(rest)
      IN IF open > 0 /\ close > 1
         THEN replace_datetime_token(IF open = 7 THEN "Start" ELSE "End",
                                     SubSeq(rest, 1, close - 1),
                                     start_time, end_time, now)
              \o SubDatetime(SubSeq(rest, close + 1, Len(rest)),
                             start_time, end_time, now)
         ELSE <<Head(s)>> \o SubDatetime(Tail(s), start_time, end_time, now)

invalid_chars == {"<", ">", ":", "\"", "/", "\\", "|", "?", "*"}

\* A faulty variant of CleanInvalid: lines 464-466 left out.
CleanInvalidSkipped(s) == s

\* Lines 462-466: every invalid character becomes "_".
CleanInvalid(s) == [i \in 1..Len(s) |-> IF s[i] \in invalid_chars THEN "_" ELSE s[i]]

OrDefault(v, d) == IF v = None \/ v = <<>> THEN d ELSE v

\* generate_filename_from_pattern (lines 394-468).  None stands for an
\* argument that is None (NoTime for a time); now is the reading of datetime.now().
generate_filename_from_pattern(pattern, blend_name, camera_name, frame_num, start_time, end_time, channel_name, view_layer_name, now) ==
    LET r1 == Replace(pattern, <<"(", "C", "a", "m", "e", "r", "a", ")">>,
                      OrDefault(camera_name, <<"N", "o", "C", "a", "m", "e", "r", "a">>))
        r2 == Replace(r1, <<"(", "F", "r", "a", "m", "e", ")">>, Format04d(frame_num))
        r3 == Replace(r2, <<"(", "F", "i", "l", "e", "N", "a", "m", "e", ")">>,
                      OrDefault(blend_name, <<"u", "n", "t", "i", "t", "l", "e", "d">>))
        r4 == Replace(r3, <<"(", "V", "i", "e", "w", "L", "a", "y", "e", "r", ")">>,
                      OrDefault(view_layer_name,
                                <<"V", "i", "e", "w", "L", "a", "y", "e", "r">>))
        ChannelToken == <<"(", "C", "h", "a", "n", "n", "e", "l", ")">>
        r5 == IF Occurs(ChannelToken, r4)
              THEN Replace(r4, ChannelToken,
                           OrDefault(channel_name,
                                     <<"C", "o", "m", "b", "i", "n", "e", "d">>))
              ELSE r4
        r6 == SubDatetime(r5, start_time, end_time, now)
    IN CleanInvalid(r6)

\* validate_channel_pattern (lines 109-119): is_valid of the pair returned.
validate_channel_pattern(pattern, has_multiple_channels) ==
    ~(has_multiple_channels
        /\ ~Occurs(<<"(", "C", "h", "a", "n", "n", "e", "l", ")">>, pattern))

\* ------------------------------------------------------- the compositor

\* The compositor of a scene is its use_nodes flag and the names of the nodes
\* of its node_tree.  The host keeps the names of a tree distinct: a name
\* given to a node (lines 302, 308) that another node has already gets a
\* numbered suffix, and the name read back (lines 304, 310) is the one kept.
NameSuffixes == <<"", ".001", ".002", ".003">>

UniqueName(name, nodes) ==
    LET free == {i \in 1..Len(NameSuffixes) : (name \o NameSuffixes[i]) \notin nodes}
    IN name \o NameSuffixes[CHOOSE i \in free : \A j \in free : i <= j]

\* setup_compositor_for_pass (lines 284-350).  created is how far the try
\* block gets: 0 when the first nodes.new raises (line 301), 1 when the
\* second raises (line 307), 2 when both nodes exist (whether a link is made
\* or links.new raises changes neither the flag nor the nodes).  The result
\* is the scene after the call and the original_state returned.
setup_compositor_for_pass(scene, channel_name, created) ==
    IF channel_name = <<"C", "o", "m", "b", "i", "n", "e", "d">> THEN
        [scene |-> scene,
         original_state |-> [use_nodes |-> scene.use_nodes, created_nodes |-> <<>>]]
    ELSE
        LET render_layers_node == UniqueName("FRH_TempRenderLayers", scene.node_tree)
            composite_node == UniqueName("FRH_TempComposite", scene.node_tree)
            created_nodes ==
                IF created = 0 THEN <<>>
                ELSE IF created = 1 THEN <<render_layers_node>>
                ELSE <<render_layers_node, composite_node>>
        IN [scene |-> [use_nodes |-> TRUE,
                       node_tree |-> scene.node_tree \cup SeqToSet(created_nodes)],
            original_state |-> [use_nodes |-> scene.use_nodes,
                                created_nodes |-> created_nodes]]

\* restore_compositor_state (lines 353-378): the scene after the call.
restore_compositor_state(scene, original_state) ==
    LET nodes_to_remove ==
            {n \in SeqToSet(original_state.created_nodes) : n \in scene.node_tree}
    IN [use_nodes |-> original_state.use_nodes,
        node_tree |-> scene.node_tree \ nodes_to_remove]

\* ------------------------------------------------------------- the host

\* The operator instances of a session: the host makes a new instance of
\* RENDER_OT_specific_frames for every request.  Requests are the instances
\* the sessions of Spec use: one batch request in a session.
Ops == {"op1", "op2"}

Requests == {"op1"}

Combined == <<"C", "o", "m", "b", "i", "n", "e", "d">>

\* get_selected_channels (lines 138-177): the view layer's flags in the
\* order they are tested, each with the channel it appends.
PassOrder ==
    << [flag |-> "use_pass_z", channel |-> <<"D", "e", "p", "t", "h">>],
       [flag |-> "use_pass_mist", channel |-> <<"M", "i", "s", "t">>],
       [flag |-> "use_pass_normal", channel |-> <<"N", "o", "r", "m", "a", "l">>],
       [flag |-> "use_pass_diffuse_direct",
        channel |-> <<"D", "i", "f", "f", "u", "s", "e", "D", "i", "r">>],
       [flag |-> "use_pass_glossy_direct",
        channel |-> <<"G", "l", "o", "s", "s", "y", "D", "i", "r">>],
       [flag |-> "use_pass_emit", channel |-> <<"E", "m", "i", "t">>],
       [flag |-> "use_pass_diffuse_color",
        channel |-> <<"D", "i", "f", "f", "u", "s", "e", "C", "o", "l">>],
       [flag |-> "use_pass_glossy_color",
        channel |-> <<"G", "l", "o", "s", "s", "y", "C", "o", "l">>],
       [flag |-> "use_pass_transmission_direct",
        channel |-> <<"T", "r", "a", "n", "s", "D", "i", "r">>],
       [flag |-> "use_pass_transmission_color",
        channel |-> <<"T", "r", "a", "n", "s", "C", "o", "l">>],
       [flag |-> "use_pass_ambient_occlusion", channel |-> <<"A", "O">>],
       [flag |-> "use_pass_shadow", channel |-> <<"S", "h", "a", "d", "o", "w">>],
       [flag |-> "use_pass_environment",
        channel |-> <<"E", "n", "v", "i", "r", "o", "n", "m", "e", "n", "t">>] >>

RECURSIVE EnabledFrom(_, _)
EnabledFrom(i, flags) ==
    IF i > Len(PassOrder) THEN <<>>
    ELSE (IF PassOrder[i].flag \in flags THEN <<PassOrder[i].channel>> ELSE <<>>)
         \o EnabledFrom(i + 1, flags)

\* get_selected_channels (lines 122-179): layers is scene.view_layers, each
\* layer with its name and the set of its flags that are on.
get_selected_channels(layers) ==
    IF layers = <<>> THEN <<Combined>>
    ELSE <<Combined>> \o EnabledFrom(1, layers[1].flags)

disallowed_formats == {"FFMPEG", "AVI_JPEG", "AVI_RAW", "FRAMESERVER"}

\* Lines 683-693: the extension for render.image_settings.file_format (the
\* comparison is on the lower-case name).
Extension(file_format) ==
    CASE file_format = "PNG" -> <<".", "p", "n", "g">>
      [] file_format = "JPEG" -> <<".", "j", "p", "g">>
      [] file_format = "TIFF" -> <<".", "t", "i", "f">>
      [] file_format = "EXR" -> <<".", "e", "x", "r">>
      [] OTHER -> <<".", "p", "n", "g">>

\* The inputs of a session of Spec.
BatchTexts ==
    { <<"2", ",", "1">>, <<"0", "-", "2">>, <<"1", ",", "1">>,
      <<"2", "-", "1">>, <<"1", "-">>, <<"-", "-">>, <<"a">>, <<",">>, <<>> }

DefaultPattern ==
    <<"(", "F", "i", "l", "e", "N", "a", "m", "e", ")", "_",
      "(", "C", "a", "m", "e", "r", "a", ")", "_", "f", "r", "a", "m", "e", "_",
      "(", "F", "r", "a", "m", "e", ")">>

Patterns ==
    { DefaultPattern,
      <<"(", "F", "r", "a", "m", "e", ")", "_",
        "(", "C", "h", "a", "n", "n", "e", "l", ")", "_",
        "(", "E", "n", "d", ":", "s", "s", ")">> }

InitFormats == {"PNG", "JPEG", "FFMPEG"}

InitFrame == 9

PassConfigs == { {}, {"use_pass_z"} }

Cameras == { <<"C", "a", "m">> }

BlendPaths == { <<>>, <<"/", "p", "/", "S", "c", ".", "b", "l", "e", "n", "d">> }

Folders == { <<>>, <<"/", "o", "u", "t">> }

\* os.getcwd()
Cwd == <<"/", "w">>

VARIABLES
    frame_current,          \* scene.frame_current
    filepath,               \* scene.render.filepath
    file_format,            \* scene.render.image_settings.file_format
    use_persistent_data,    \* scene.render.use_persistent_data
    use_file_extension,     \* scene.render.use_file_extension
    camera,                 \* scene.camera.name, or None
    view_layers,            \* scene.view_layers
    blend_filepath,         \* bpy.data.filepath
    output_folder_path,     \* the module's global (line 36)
    filename_pattern,       \* the module's global (line 37)
    timers,                 \* the window manager's timers, by their owner
    now,                    \* the clock read by datetime.now()
    op,                     \* the operator instances
    report,                 \* the last self.report of each instance
    rendered,               \* history: the render-trigger invocations of each
    pre,                    \* history: the host's settings when execute began
    use_nodes,              \* scene.use_nodes
    node_tree,              \* the names of scene.node_tree.nodes
    file_created,           \* file_created (line 731) of each instance's last unit
    prefs_file,             \* the preference file (line 43)
    filename_call,          \* a call of generate_filename_from_pattern
    pref_op,                \* the last preference operation and what it returned
    probe_call,             \* a probe of the candidate paths (lines 730-769)
    ticks                   \* history: the TIMER events each instance has handled

host == <<camera, view_layers, blend_filepath, output_folder_path, filename_pattern>>

settings == <<frame_current, filepath, file_format, use_persistent_data, use_file_extension>>

compositor == <<use_nodes, node_tree>>

\* What no step of the batch operator reads or writes.
elsewhere == <<prefs_file, filename_call, pref_op, probe_call>>

vars == <<frame_current, filepath, file_format, use_persistent_data,
          use_file_extension, camera, view_layers, blend_filepath,
          output_folder_path, filename_pattern, timers, now, op, report,
          rendered, pre, use_nodes, node_tree, file_created, prefs_file,
          filename_call, pref_op, probe_call, ticks>>

\* The class attributes of RENDER_OT_specific_frames (lines 598-617): a new
\* instance, its dialog not yet confirmed.
NewOperator ==
    [ state |-> "Idle", ret |-> "none",
      frame_list |-> <<"1", ",", "5", ",", "1", "0", "-", "1", "5">>,
      _timer |-> FALSE,
      _frame_numbers |-> <<>>, _selected_channels |-> <<>>,
      _current_frame_index |-> 0, _current_channel_index |-> 0,
      _original_frame |-> 0, _original_filepath |-> <<>>,
      _original_format |-> "", _format_switched |-> FALSE,
      _output_folder |-> <<>>, _blend_filename |-> <<>>,
      _last_saved_path |-> <<>>, _original_use_persistent_data |-> FALSE,
      _render_start_time |-> NoTime, _frame_start_time |-> NoTime ]

NoReport == [level |-> "none", msg |-> "", completed |-> 0, total |-> 0]

\* The preference file (lines 40-43): whether it exists, whether json.load
\* reads an object from it, and the two entries of that object (None for an
\* entry that is not there).
PrefsFile(exists, readable, default_output_folder, pattern) ==
    [exists |-> exists, readable |-> readable,
     default_output_folder |-> default_output_folder, filename_pattern |-> pattern]

NoFile == PrefsFile(FALSE, FALSE, None, None)

\* No call of generate_filename_from_pattern made on its own.
NoCall == [result |-> None]

\* No preference operation made yet.
NoPrefOp == [kind |-> "none", ret |-> "none"]

\* No probe of the candidate paths made on its own.
NoProbe == [done |-> TRUE, result |-> None]

Settings ==
    [ frame_current |-> frame_current, filepath |-> filepath,
      file_format |-> file_format, use_persistent_data |-> use_persistent_data,
      use_file_extension |-> use_file_extension ]

InitHost ==
    /\ frame_current = InitFrame
    /\ filepath = <<"/", "t", "m", "p", "/">>
    /\ file_format \in InitFormats
    /\ use_persistent_data \in BOOLEAN
    /\ use_file_extension \in BOOLEAN
    /\ camera \in Cameras
    /\ view_layers \in {<<[name |-> <<"V", "L">>, flags |-> f]>> : f \in PassConfigs}
    /\ blend_filepath \in BlendPaths
    /\ output_folder_path \in Folders
    /\ filename_pattern \in Patterns
    /\ timers = {}
    /\ now = 0
    /\ prefs_file = NoFile
    /\ filename_call = NoCall
    /\ pref_op = NoPrefOp
    /\ probe_call = NoProbe

\* The compositor of the scene, one of C.
InitCompositor(C) == \E c \in C : use_nodes = c.use_nodes /\ node_tree = c.node_tree

\* The instances before any request: the dialog of each instance of Requests
\* holds a frame list of T (the property frame_list, lines 598-602).
InitOps(T) ==
    /\ op \in {[o \in Ops |-> IF o \in Requests
                               THEN [NewOperator EXCEPT !.frame_list = t]
                               ELSE NewOperator] : t \in T}
    /\ report = [o \in Ops |-> NoReport]
    /\ rendered = [o \in Ops |-> <<>>]
    /\ pre = [o \in Ops |-> Settings]
    /\ file_created = [o \in Ops |-> FALSE]
    /\ ticks = [o \in Ops |-> 0]

Init ==
    /\ InitHost
    /\ InitCompositor({[use_nodes |-> FALSE, node_tree |-> {}]})
    /\ InitOps(BatchTexts)

\* ------------------------------------------------------------- execute

Report(level, msg, completed, total) ==
    [level |-> level, msg |-> msg, completed |-> completed, total |-> total]

\* Lines 942-947: the blend file's name without its extension.
BlendFilename(path) ==
    IF path # <<>> THEN SplitextRoot(Basename(path))
    ELSE <<"u", "n", "t", "i", "t", "l", "e", "d">>

\* Lines 949-959: the folder the batch writes to.
OutputFolder(folder, path) ==
    IF Strip(folder) # <<>> THEN folder
    ELSE IF path # <<>> THEN Dirname(path)
    ELSE Cwd

\* A faulty variant of EnablePersistent: line 929 placed before the parse.
EnablePersistentFirst(parsed_ok, current) == TRUE

\* Lines 927-929: the persistence flag is forced on once the frame list has
\* been resolved (parsed_ok); a text that does not parse returns before.
EnablePersistent(parsed_ok, current) == IF parsed_ok THEN TRUE ELSE current

\* execute (lines 855-999) of instance o, its dialog confirmed; makedirs_ok
\* is whether os.makedirs returns (line 953).  bpy.path.abspath (line 957)
\* leaves the absolute path of the blend file as it is.
ExecuteWith(o, makedirs_ok) ==
    LET parsed == ParseFrameList(op[o].frame_list)
        selected_channels == get_selected_channels(view_layers)
        switch == file_format \in disallowed_formats
        total_renders == Len(parsed.frames) * Len(selected_channels)
        captured ==
            [op[o] EXCEPT
                !._frame_numbers = parsed.frames,
                !._selected_channels = selected_channels,
                !._current_frame_index = 0,
                !._current_channel_index = 0,
                !._original_frame = frame_current,
                !._original_filepath = filepath,
                !._original_format = file_format,
                !._format_switched = switch,
                !._original_use_persistent_data = use_persistent_data,
                !._blend_filename = BlendFilename(blend_filepath)]
    IN
    /\ op[o].state = "Idle"
    /\ op[o].ret = "none"
    /\ pre' = [pre EXCEPT ![o] = Settings]
    /\ UNCHANGED <<host, frame_current, filepath, use_file_extension, now, rendered>>
    /\ UNCHANGED <<compositor, file_created, elsewhere, ticks>>
    /\ use_persistent_data' = EnablePersistent(parsed.kind = "ok", use_persistent_data)
    /\ IF parsed.kind # "ok" THEN
          \* lines 859-896: report and return {'CANCELLED'}
          /\ op' = [op EXCEPT ![o] =
                      [@ EXCEPT !.ret = "CANCELLED"]]
          /\ report' = [report EXCEPT ![o] = Report("ERROR", parsed.kind, 0, 0)]
          /\ UNCHANGED <<file_format, timers>>
       ELSE
          /\ file_format' = IF switch THEN "PNG" ELSE file_format
          /\ IF Strip(output_folder_path) # <<>> /\ ~makedirs_ok THEN
                \* lines 997-999: os.makedirs raised
                /\ op' = [op EXCEPT ![o] =
                            [captured EXCEPT
                                !._output_folder = output_folder_path,
                                !.ret = "CANCELLED"]]
                /\ report' = [report EXCEPT ![o] =
                                Report("ERROR", "Error during rendering", 0, 0)]
                /\ UNCHANGED timers
             ELSE
                /\ op' = [op EXCEPT ![o] =
                            [captured EXCEPT
                                !._output_folder =
                                    OutputFolder(output_folder_path, blend_filepath),
                                !._render_start_time = now,
                                !._timer = TRUE,
                                !.state = "Running",
                                !.ret = "RUNNING_MODAL"]]
                /\ report' = [report EXCEPT ![o] =
                                Report("INFO", "Press ESC to cancel rendering",
                                       0, total_renders)]
                /\ timers' = timers \cup {o}

Execute(o) == \E makedirs_ok \in BOOLEAN : ExecuteWith(o, makedirs_ok)

\* --------------------------------------------------------------- modal

\* Lines 656-680: the channel name passed to the pattern engine.
ChannelArgument(pattern, selected_channels, channel_name) ==
    IF Occurs(<<"(", "C", "h", "a", "n", "n", "e", "l", ")">>, pattern)
         \/ Len(selected_channels) > 1
    THEN channel_name ELSE None

\* Lines 644-680: the file name of the unit (frame_num, channel_name) of
\* instance self at clock reading t.
UnitFilename(self, frame_num, channel_name, t) ==
    generate_filename_from_pattern(
        filename_pattern, self._blend_filename,
        IF camera # None THEN camera ELSE <<"N", "o", "C", "a", "m", "e", "r", "a">>,
        frame_num, self._render_start_time, NoTime,
        ChannelArgument(filename_pattern, self._selected_channels, channel_name),
        IF view_layers # <<>> THEN view_layers[1].name
        ELSE <<"V", "i", "e", "w", "L", "a", "y", "e", "r">>,
        t)

\* A faulty variant of NextFrame: line 629 left out.
NextFrameKeepsChannel(self) ==
    [self EXCEPT !._current_frame_index = @ + 1, !.ret = "PASS_THROUGH"]

\* A faulty variant of NextFrame: the frame after the next one.
NextFrameByTwo(self) ==
    [self EXCEPT !._current_frame_index = @ + 2,
                 !._current_channel_index = 0,
                 !.ret = "PASS_THROUGH"]

\* Lines 626-629: all channels of the frame are done, move to the next frame.
NextFrame(self) ==
    [self EXCEPT !._current_frame_index = @ + 1,
                 !._current_channel_index = 0,
                 !.ret = "PASS_THROUGH"]

\* A faulty variant of NextChannel: line 776 left out.
NextChannelKept(self) == [self EXCEPT !.ret = "PASS_THROUGH"]

\* Lines 775-776: move to the next channel.
NextChannel(self) ==
    [self EXCEPT !._current_channel_index = @ + 1, !.ret = "PASS_THROUGH"]

\* A faulty variant of completed_renders: the count of line 704, which
\* includes the unit about to be rendered.
CompletedPlusOne(self) ==
    (self._current_frame_index * Len(self._selected_channels))
        + self._current_channel_index + 1

\* Lines 823 and 850: the count cancel_rendering reports.
completed_renders(self) ==
    (self._current_frame_index * Len(self._selected_channels))
        + self._current_channel_index

\* Lines 703-704
current_render(self) ==
    (self._current_frame_index * Len(self._selected_channels))
        + self._current_channel_index + 1

total_renders(self) == Len(self._frame_numbers) * Len(self._selected_channels)

\* Faulty variants of the restoration: the format left as substituted, the
\* persistence flag left on.
FinishFormatKept(self, current) == current

CancelPersistentKept(self) == TRUE

\* Lines 804-808 and 836-840: the image format after the restoration.
FinishFormat(self, current) ==
    IF self._format_switched /\ self._original_format # ""
    THEN self._original_format ELSE current

CancelFormat(self, current) ==
    IF self._format_switched /\ self._original_format # ""
    THEN self._original_format ELSE current

\* Line 811 and line 843: the persistence flag after the restoration.
FinishPersistent(self) == self._original_use_persistent_data

CancelPersistent(self) == self._original_use_persistent_data

\* A faulty variant of event_timer_remove: lines 816 and 848 left out.
event_timer_kept(ts, o) == ts

\* wm.event_timer_remove(self._timer) (lines 816, 848): the timers left.
event_timer_remove(ts, o) == ts \ {o}

\* finish_rendering (lines 787-819)
finish_rendering(o) ==
    /\ frame_current' = op[o]._original_frame
    /\ filepath' = op[o]._original_filepath
    /\ file_format' = FinishFormat(op[o], file_format)
    /\ use_persistent_data' = FinishPersistent(op[o])
    /\ timers' = event_timer_remove(timers, o)
    /\ report' = [report EXCEPT ![o] =
                    Report("INFO", "Successfully rendered",
                           total_renders(op[o]), total_renders(op[o]))]
    /\ op' = [op EXCEPT ![o] = [@ EXCEPT !.state = "Finishing", !.ret = "FINISHED"]]
    /\ UNCHANGED <<host, use_file_extension, now, rendered, pre>>
    /\ UNCHANGED <<compositor, file_created, elsewhere>>

\* cancel_rendering (lines 821-853)
cancel_rendering(o) ==
    /\ frame_current' = op[o]._original_frame
    /\ filepath' = op[o]._original_filepath
    /\ file_format' = CancelFormat(op[o], file_format)
    /\ use_persistent_data' = CancelPersistent(op[o])
    /\ timers' = event_timer_remove(timers, o)
    /\ report' = [report EXCEPT ![o] =
                    Report("WARNING", "Rendering cancelled",
                           completed_renders(op[o]), total_renders(op[o]))]
    /\ op' = [op EXCEPT ![o] = [@ EXCEPT !.state = "Cancelled", !.ret = "CANCELLED"]]
    /\ UNCHANGED <<host, use_file_extension, now, rendered, pre>>
    /\ UNCHANGED <<compositor, file_created, elsewhere>>

\* Lines 731-769: file_created after the probe of the candidate paths and
\* the fallback save.  found is whether os.path.exists holds of a candidate
\* (line 751); success is whether save_render_result returns True and the
\* file then exists (lines 763-764).
FileCreated(found, success) == found \/ success

\* The outcomes of the try block of setup_compositor_for_pass for a channel.
CreatedOutcomes(channel_name) == IF channel_name = Combined THEN {2} ELSE 0..2

\* Lines 635-780: the tick that renders one (frame, channel) unit.  raises
\* is whether bpy.ops.render.render (line 728) raises; elapsed is the time
\* the render takes; created, found and success are the outcomes of the
\* compositor setup, the probe and the fallback save.  Nothing in modal
\* catches the exception of line 728: the handler is left there without a
\* return value and the host ends the operator, with no statement after
\* line 728 executed.
RenderUnit(o, raises, elapsed, created, found, success) ==
    LET self == op[o]
        frame_num == self._frame_numbers[self._current_frame_index + 1]
        channel_name == self._selected_channels[self._current_channel_index + 1]
        filename == UnitFilename(self, frame_num, channel_name, now)
        extension == Extension(file_format)
        full_output_path == PathJoin(self._output_folder, filename \o extension)
        filepath_without_ext == PathJoin(self._output_folder, filename)
        started == [self EXCEPT !._frame_start_time = now,
                                !._last_saved_path = full_output_path]
        setup == setup_compositor_for_pass(
                     [use_nodes |-> use_nodes, node_tree |-> node_tree],
                     channel_name, created)
        restored == restore_compositor_state(setup.scene, setup.original_state)
    IN
    /\ frame_current' = frame_num
    /\ use_file_extension' = TRUE
    /\ filepath' = filepath_without_ext
    /\ rendered' = [rendered EXCEPT ![o] = Append(@, <<frame_num, channel_name>>)]
    /\ now' = now + elapsed
    /\ IF raises THEN
          /\ op' = [op EXCEPT ![o] =
                      [started EXCEPT !.state = "Aborted", !.ret = "raised"]]
          /\ report' = [report EXCEPT ![o] =
                          Report("ERROR", "render raised",
                                 current_render(self), total_renders(self))]
          /\ use_nodes' = setup.scene.use_nodes
          /\ node_tree' = setup.scene.node_tree
          /\ UNCHANGED file_created
       ELSE
          /\ op' = [op EXCEPT ![o] = NextChannel(started)]
          /\ report' = [report EXCEPT ![o] =
                          Report("INFO", "Rendering frame",
                                 current_render(self), total_renders(self))]
          /\ use_nodes' = restored.use_nodes
          /\ node_tree' = restored.node_tree
          /\ file_created' = [file_created EXCEPT ![o] = FileCreated(found, success)]
    /\ UNCHANGED <<host, file_format, use_persistent_data, timers, pre, elsewhere>>

\* modal (lines 619-785) of instance o on a TIMER event.
ModalTimer(o) ==
    /\ op[o].state = "Running"
    /\ timers # {}
    /\ ticks' = [ticks EXCEPT ![o] = @ + 1]
    /\ IF op[o]._current_frame_index >= Len(op[o]._frame_numbers) THEN
          finish_rendering(o)
       ELSE IF op[o]._current_channel_index >= Len(op[o]._selected_channels) THEN
          /\ op' = [op EXCEPT ![o] = NextFrame(@)]
          /\ UNCHANGED <<host, settings, timers, now, report, rendered, pre>>
          /\ UNCHANGED <<compositor, file_created, elsewhere>>
       ELSE
          \E elapsed \in 0..1 :
          \E created \in CreatedOutcomes(
                            op[o]._selected_channels[op[o]._current_channel_index + 1]) :
              /\ now + elapsed <= MaxClock
              /\ \/ RenderUnit(o, TRUE, elapsed, created, FALSE, FALSE)
                 \/ \E found \in BOOLEAN :
                    \E success \in (IF found THEN {FALSE} ELSE BOOLEAN) :
                        RenderUnit(o, FALSE, elapsed, created, found, success)

\* modal (lines 782-783) of instance o on an ESC event.
ModalEsc(o) ==
    /\ op[o].state = "Running"
    /\ cancel_rendering(o)
    /\ UNCHANGED ticks

Next ==
    \E o \in Requests :
        \/ Execute(o)
        \/ ModalTimer(o)
        \/ ModalEsc(o)

Spec == Init /\ [][Next]_vars

\* The resolver's specification: one request, with every text of Texts as
\* its frame list, in a fixed host.
FixedRender ==
    /\ frame_current = InitFrame
    /\ filepath = <<"/", "t", "m", "p", "/">>
    /\ use_persistent_data = FALSE
    /\ use_file_extension = FALSE
    /\ camera = <<"C", "a", "m">>
    /\ blend_filepath = <<>>
    /\ timers = {}
    /\ now = 0

FixedScene ==
    /\ FixedRender
    /\ file_format = "PNG"
    /\ view_layers = <<[name |-> <<"V", "L">>, flags |-> {}]>>
    /\ InitCompositor({[use_nodes |-> FALSE, node_tree |-> {}]})

ParseInit ==
    /\ FixedScene
    /\ output_folder_path = <<>>
    /\ filename_pattern = DefaultPattern
    /\ prefs_file = NoFile
    /\ filename_call = NoCall
    /\ pref_op = NoPrefOp
    /\ probe_call = NoProbe
    /\ InitOps(Texts)

ParseNext == \E o \in Requests : Execute(o)

ParseSpec == ParseInit /\ [][ParseNext]_vars

\* ------------------------------------- generate_filename_from_pattern alone

\* The arguments of the calls of the pattern engine's specification.
NamePatterns ==
    { DefaultPattern,
      <<"(", "C", "a", "m", "e", "r", "a", ")">>,
      <<"(", "(", "C", "a", "m", "e", "r", "a", ")", ")">>,
      <<"(", "F", "r", "a", "m", "e", ")", "_", "(", "C", "h", "a", "n", "n", "e", "l", ")">>,
      <<"(", "S", "t", "a", "r", "t", ":", "y", "y", "y", "y", "M", "M", "d", "d", "_", "H", "H", ":", "m", "m", ":", "s", "s", ")">>,
      <<"(", "E", "n", "d", ":", "H", "H", ":", "m", "m", ":", "s", "s", ")">>,
      <<"a", "/", "b", "*", "(", "F", "i", "l", "e", "N", "a", "m", "e", ")">>,
      <<"(", "V", "i", "e", "w", "L", "a", "y", "e", "r", ")", "?">> }

NameCameras == { <<"C", "a", "m">>, <<"(", "C", "h", "a", "n", "n", "e", "l", ")">>, <<"C", "h", "a", "n", "n", "e", "l">>, None }

NameBlends == { <<"S", "c">>, <<>> }

NameChannels == { None, Combined, <<"D", "e", "p", "t", "h">> }

NameViewLayers == { <<"V", "L">>, <<"(", "C", "h", "a", "n", "n", "e", "l", ")">> }

NameFrames == {1, 12}

NameCalls ==
    { [pattern |-> p, blend_name |-> b, camera_name |-> c, frame_num |-> f,
       start_time |-> st, end_time |-> et, channel_name |-> ch,
       view_layer_name |-> v, now |-> MaxClock, result |-> None] :
        p \in NamePatterns, b \in NameBlends, c \in NameCameras,
        f \in NameFrames, st \in {NoTime, 0}, et \in {NoTime, 1},
        ch \in NameChannels, v \in NameViewLayers }

NameInit ==
    /\ FixedScene
    /\ output_folder_path = <<>>
    /\ filename_pattern = DefaultPattern
    /\ prefs_file = NoFile
    /\ pref_op = NoPrefOp
    /\ probe_call = NoProbe
    /\ InitOps({<<"1">>})
    /\ filename_call \in NameCalls

\* The result of the call c with channel_name as its channel name.
GenerateWith(c, channel_name) ==
    generate_filename_from_pattern(c.pattern, c.blend_name, c.camera_name,
                                   c.frame_num, c.start_time, c.end_time,
                                   channel_name, c.view_layer_name, c.now)

\* One call of generate_filename_from_pattern (lines 394-468).
GenerateFilename ==
    /\ filename_call.result = None
    /\ filename_call' =
          [filename_call EXCEPT !.result = GenerateWith(filename_call, filename_call.channel_name)]
    /\ UNCHANGED <<host, settings, timers, now, op, report, rendered, pre,
                   compositor, file_created, prefs_file, pref_op, probe_call,
                   ticks>>

NameNext == GenerateFilename

NameSpec == NameInit /\ [][NameNext]_vars

\* --------------------------------------------------- the ticks of a batch

\* The compositors of the scenes of the tick specification: the flag off or
\* on, no node, a user's node, and nodes that bear the names the batch gives.
Compositors ==
    { [use_nodes |-> u, node_tree |-> n] :
        u \in BOOLEAN,
        n \in { {}, {"Composite"}, {"FRH_TempRenderLayers", "FRH_TempComposite"} } }

TickTexts == { <<"2", ",", "1">>, <<"1">> }

TickInit ==
    /\ FixedRender
    /\ file_format = "PNG"
    /\ view_layers \in {<<[name |-> <<"V", "L">>, flags |-> f]>> : f \in PassConfigs}
    /\ InitCompositor(Compositors)
    /\ output_folder_path = <<>>
    /\ filename_pattern = DefaultPattern
    /\ prefs_file = NoFile
    /\ filename_call = NoCall
    /\ pref_op = NoPrefOp
    /\ probe_call = NoProbe
    /\ InitOps(TickTexts)

TickSpec == TickInit /\ [][Next]_vars

\* The steps of ModalTimer(o): of the steps of Next, only those count a
\* tick of o, and one is possible exactly when o runs and a timer is on.
TickStep(o) ==
    /\ op[o].state = "Running"
    /\ timers # {}
    /\ ticks' = [ticks EXCEPT ![o] = @ + 1]

\* The timer of line 995 fires every 0.1 s for as long as it is registered:
\* a running instance is always handed another TIMER event.
TickFairness == \A o \in Requests : WF_ticks(TickStep(o))

LiveSpec == TickInit /\ [][Next]_vars /\ TickFairness

\* ------------------------------------------- requests during a batch

\* The panel's button (line 1725) stays available while a batch runs: modal
\* returns PASS_THROUGH, so the host makes and executes a new instance for
\* every request.  Every instance of Ops may be requested.
OverlapInit ==
    /\ FixedRender
    /\ file_format \in {"PNG", "FFMPEG"}
    /\ view_layers = <<[name |-> <<"V", "L">>, flags |-> {}]>>
    /\ InitCompositor({[use_nodes |-> FALSE, node_tree |-> {}]})
    /\ output_folder_path = <<>>
    /\ filename_pattern = DefaultPattern
    /\ prefs_file = NoFile
    /\ filename_call = NoCall
    /\ pref_op = NoPrefOp
    /\ probe_call = NoProbe
    /\ op \in {[o \in Ops |-> [NewOperator EXCEPT !.frame_list = t[o]]] :
                  t \in [Ops -> TickTexts]}
    /\ report = [o \in Ops |-> NoReport]
    /\ rendered = [o \in Ops |-> <<>>]
    /\ pre = [o \in Ops |-> Settings]
    /\ file_created = [o \in Ops |-> FALSE]
    /\ ticks = [o \in Ops |-> 0]

OverlapNext ==
    \E o \in Ops :
        \/ Execute(o)
        \/ ModalTimer(o)
        \/ ModalEsc(o)

OverlapSpec == OverlapInit /\ [][OverlapNext]_vars

\* ------------------------------------------------------ the preferences

\* What the dialogs are given, and what a preference file may hold.
PrefPatterns == { <<>>, <<" ">>, <<"(", "F", "r", "a", "m", "e", ")">>, <<" ", "(", "F", "r", "a", "m", "e", ")", " ">>, DefaultPattern }

PrefFolders == { <<>>, <<"/", "o", "u", "t">>, <<"/", "x">> }

PrefsFiles ==
    { NoFile, PrefsFile(TRUE, FALSE, None, None) }
      \cup { PrefsFile(TRUE, TRUE, f, p) :
                f \in {None} \cup PrefFolders,
                p \in {None, <<>>, <<" ">>, <<"(", "F", "r", "a", "m", "e", ")">>, DefaultPattern} }

PrefsInit ==
    /\ FixedScene
    /\ output_folder_path = <<>>
    /\ filename_pattern = DefaultPattern
    /\ prefs_file \in PrefsFiles
    /\ filename_call = NoCall
    /\ pref_op = NoPrefOp
    /\ probe_call = NoProbe
    /\ InitOps({<<"1">>})

\* load_user_preferences (lines 45-69): the two globals after the call.
\* folder_exists is os.path.exists(saved_folder).  A file that json.load
\* does not read an object from raises inside the try block: nothing is set.
LoadedFolder(file, current, folder_exists) ==
    IF file.exists /\ file.readable
         /\ file.default_output_folder \notin {None, <<>>} /\ folder_exists
    THEN file.default_output_folder ELSE current

\* A faulty variant of LoadedPattern: the test of line 63 is that the file
\* has the entry, whatever it holds.
LoadedPatternAnyEntry(file, current) ==
    IF file.exists /\ file.readable /\ file.filename_pattern # None
    THEN file.filename_pattern ELSE current

LoadedPattern(file, current) ==
    IF file.exists /\ file.readable /\ file.filename_pattern \notin {None, <<>>}
    THEN file.filename_pattern ELSE current

\* save_user_preferences (lines 75-99): the file after the call.  An
\* existing file is read first (lines 85-87); when json.load raises, or what
\* it returns takes no entry, the except of line 98 ends the function before
\* the file is opened for writing.
save_user_preferences(file, folder, pattern) ==
    IF file.exists /\ ~file.readable THEN file
    ELSE PrefsFile(TRUE, TRUE, folder, pattern)

\* The module is loaded (lines 36-37, 106) and registered (line 1755): the
\* globals get their defaults, then what the file holds.
ScriptLoad ==
    \E folder_exists \in BOOLEAN :
        /\ output_folder_path' = LoadedFolder(prefs_file, <<>>, folder_exists)
        /\ filename_pattern' = LoadedPattern(prefs_file, DefaultPattern)
        /\ pref_op' = [kind |-> "load", ret |-> "none"]
        /\ UNCHANGED <<settings, camera, view_layers, blend_filepath, timers, now,
                       op, report, rendered, pre, compositor, file_created,
                       prefs_file, filename_call, probe_call, ticks>>

\* RENDER_OT_set_filename_pattern.execute (lines 536-549)
SetFilenamePattern ==
    \E pattern \in PrefPatterns :
        LET new == IF Strip(pattern) # <<>> THEN Strip(pattern) ELSE DefaultPattern IN
        /\ filename_pattern' = new
        /\ prefs_file' = save_user_preferences(prefs_file, output_folder_path, new)
        /\ pref_op' = [kind |-> "set_filename_pattern", ret |-> "FINISHED"]
        /\ UNCHANGED <<settings, camera, view_layers, blend_filepath,
                       output_folder_path, timers, now, op, report, rendered, pre,
                       compositor, file_created, filename_call, probe_call,
                       ticks>>

\* RENDER_OT_set_output_folder.execute (lines 486-506).  makedirs_ok is
\* whether os.makedirs returns (line 492); bpy.path.abspath leaves an
\* absolute path as it is.
SetOutputFolder ==
    \E folder_path \in PrefFolders, makedirs_ok \in BOOLEAN :
        LET new == Strip(folder_path) IN
        /\ output_folder_path' = new
        /\ IF new # <<>> /\ ~makedirs_ok THEN
              /\ pref_op' = [kind |-> "set_output_folder", ret |-> "CANCELLED"]
              /\ UNCHANGED prefs_file
           ELSE
              /\ pref_op' = [kind |-> "set_output_folder", ret |-> "FINISHED"]
              /\ prefs_file' = save_user_preferences(prefs_file, new, filename_pattern)
        /\ UNCHANGED <<settings, camera, view_layers, blend_filepath,
                       filename_pattern, timers, now, op, report, rendered, pre,
                       compositor, file_created, filename_call, probe_call,
                       ticks>>

PrefsNext == ScriptLoad \/ SetFilenamePattern \/ SetOutputFolder

PrefsSpec == PrefsInit /\ [][PrefsNext]_vars

\* ------------------------------------------------- the candidate paths

\* str.upper and str.lower on the characters of the extensions.
UpperChar(c) ==
    CASE c = "p" -> "P" [] c = "n" -> "N" [] c = "g" -> "G" [] c = "j" -> "J"
      [] c = "t" -> "T" [] c = "i" -> "I" [] c = "f" -> "F" [] c = "e" -> "E"
      [] c = "x" -> "X" [] c = "r" -> "R" [] OTHER -> c

LowerChar(c) ==
    CASE c = "P" -> "p" [] c = "N" -> "n" [] c = "G" -> "g" [] c = "J" -> "j"
      [] c = "T" -> "t" [] c = "I" -> "i" [] c = "F" -> "f" [] c = "E" -> "e"
      [] c = "X" -> "x" [] c = "R" -> "r" [] OTHER -> c

Upper(s) == [i \in 1..Len(s) |-> UpperChar(s[i])]

Lower(s) == [i \in 1..Len(s) |-> LowerChar(s[i])]

\* possible_paths (lines 735-748): the six paths of the list, and their
\* uppercase variants when the extension is not its own lowercase.
possible_paths(full_output_path, filepath_without_ext, extension, frame_num) ==
    LET six == << full_output_path,
                  filepath_without_ext \o extension,
                  filepath_without_ext \o <<"_">> \o Format04d(frame_num) \o extension,
                  filepath_without_ext \o Format04d(frame_num) \o extension,
                  Replace(full_output_path, extension,
                          <<"_">> \o Format04d(frame_num) \o extension),
                  Replace(full_output_path, extension,
                          Format04d(frame_num) \o extension) >>
    IN  IF Lower(extension) # extension
        THEN six \o [i \in 1..6 |-> Replace(six[i], extension, Upper(extension))]
        ELSE six

\* Lines 750-755: the first candidate that exists, 0 when none does.
FirstExisting(paths, files) ==
    IF \E i \in 1..Len(paths) : paths[i] \in files
    THEN CHOOSE i \in 1..Len(paths) :
            /\ paths[i] \in files
            /\ \A j \in 1..(i - 1) : paths[j] \notin files
    ELSE 0

\* save_render_result (lines 381-391): the files after the call; save_ok is
\* whether there is a render result that save_render writes.
save_render_result(files, path, save_ok) ==
    IF save_ok THEN files \cup {path} ELSE files

\* Lines 730-769: what the probe finds among files, the files on disk after
\* the render, and whether it tried the fallback save.
ProbeResult(output_folder, filename, extension, frame_num, files, save_ok) ==
    LET full_output_path == PathJoin(output_folder, filename \o extension)
        filepath_without_ext == PathJoin(output_folder, filename)
        paths == possible_paths(full_output_path, filepath_without_ext,
                                extension, frame_num)
        hit == FirstExisting(paths, files)
        saved == save_render_result(files, full_output_path, save_ok)
    IN  IF hit # 0
        THEN [possible_paths |-> paths, file_created |-> TRUE,
              actual_path |-> paths[hit], fallback |-> FALSE]
        ELSE IF save_ok /\ full_output_path \in saved
        THEN [possible_paths |-> paths, file_created |-> TRUE,
              actual_path |-> full_output_path, fallback |-> TRUE]
        ELSE [possible_paths |-> paths, file_created |-> FALSE,
              actual_path |-> None, fallback |-> TRUE]

\* Where the host may have written the file of the unit: nowhere, at the
\* expected path, at the path as render.filepath was given (line 699), with
\* the extension in capitals, or with the frame number before the extension.
HostFiles(output_folder, filename, extension, frame_num) ==
    LET without == PathJoin(output_folder, filename) IN
    { {},
      {without \o extension},
      {without},
      {without \o Upper(extension)},
      {without \o Format04d(frame_num) \o extension},
      {without \o <<"_">> \o Format04d(frame_num) \o extension} }

ProbeFolders == { <<"/", "w">> }

ProbeFilenames == { <<"n">>, <<"0", "0", "0", "1">> }

ProbeFormats == { "PNG", "JPEG" }

ProbeFrames == {1, 12}

ProbeCalls ==
    { [output_folder |-> d, filename |-> n, extension |-> Extension(ff),
       frame_num |-> f, files |-> fs, save_ok |-> ok, done |-> FALSE,
       result |-> None] :
        d \in ProbeFolders, n \in ProbeFilenames, ff \in ProbeFormats,
        f \in ProbeFrames, ok \in BOOLEAN,
        fs \in UNION { HostFiles(d2, n2, Extension(ff2), f2) :
                          d2 \in ProbeFolders, n2 \in ProbeFilenames,
                          ff2 \in ProbeFormats, f2 \in ProbeFrames } }

ProbeInit ==
    /\ FixedScene
    /\ output_folder_path = <<>>
    /\ filename_pattern = DefaultPattern
    /\ prefs_file = NoFile
    /\ filename_call = NoCall
    /\ pref_op = NoPrefOp
    /\ InitOps({<<"1">>})
    /\ probe_call \in ProbeCalls

\* One probe of the candidate paths after a render (lines 730-769).
Probe ==
    /\ ~probe_call.done
    /\ probe_call' =
          [probe_call EXCEPT !.done = TRUE, !.result =
              ProbeResult(probe_call.output_folder, probe_call.filename,
                          probe_call.extension, probe_call.frame_num,
                          probe_call.files, probe_call.save_ok)]
    /\ UNCHANGED <<host, settings, timers, now, op, report, rendered, pre,
                   compositor, file_created, prefs_file, pref_op, filename_call,
                   ticks>>

ProbeNext == Probe

ProbeSpec == ProbeInit /\ [][ProbeNext]_vars

\* ------------------------------------------------------------- claims

\* The frames and channels of a batch paired in lexicographic order.
ExpectedOrder(frames, channels) ==
    [k \in 1..(Len(frames) * Len(channels)) |->
        << frames[((k - 1) \div Len(channels)) + 1],
           channels[((k - 1) % Len(channels)) + 1] >>]

Ascending(xs) == \A i \in 1..(Len(xs) - 1) : xs[i] < xs[i + 1]

\* C1: a batch that has run to completion has invoked the render trigger
\* exactly F*C times, once per (frame, channel) pair, frames ascending and
\* within each frame the channels in their resolved order, Combined first.
C1_RenderOrder ==
    \A o \in Ops :
        op[o].state = "Finishing" =>
            /\ rendered[o] = ExpectedOrder(op[o]._frame_numbers, op[o]._selected_channels)
            /\ Len(rendered[o]) = Len(op[o]._frame_numbers) * Len(op[o]._selected_channels)
            /\ Ascending(op[o]._frame_numbers)
            /\ op[o]._selected_channels[1] = Combined

C1_Witness ==
    \E o \in Ops :
        /\ op[o].state = "Finishing"
        /\ Len(op[o]._frame_numbers) >= 2
        /\ Len(op[o]._selected_channels) >= 2
        /\ Len(rendered[o]) >= 4

\* The four captured settings are what they were when execute began.
Restored(o) ==
    /\ frame_current = pre[o].frame_current
    /\ filepath = pre[o].filepath
    /\ file_format = pre[o].file_format
    /\ use_persistent_data = pre[o].use_persistent_data

\* C2: when finish_rendering has returned, the current frame, the output
\* filepath, the image format and the persistence flag have the values they
\* had immediately before execute, whatever the initial image format.
C2_FinishRestores ==
    [][\A o \in Ops :
        (op[o].state = "Running" /\ op'[o].state = "Finishing") => Restored(o)']_vars

C2_Witness ==
    \E o \in Ops :
        /\ op[o].state = "Finishing"
        /\ pre[o].file_format \in disallowed_formats
        /\ ~pre[o].use_persistent_data
        /\ Len(rendered[o]) >= 2

\* C3: a cancel signal handled by a Running batch, after any number of
\* units, restores the four captured settings as completion does, and no
\* render trigger is invoked by that batch afterwards.
C3_CancelRestores ==
    [][\A o \in Ops :
        /\ (op[o].state = "Running" /\ op'[o].state = "Cancelled") => Restored(o)'
        /\ op[o].state = "Cancelled" =>
              (rendered'[o] = rendered[o] /\ op'[o].state = "Cancelled")]_vars

C3_Witness ==
    \E o \in Ops :
        /\ op[o].state = "Cancelled"
        /\ pre[o].file_format \in disallowed_formats
        /\ ~pre[o].use_persistent_data
        /\ Len(rendered[o]) > 0
        /\ Len(rendered[o]) < Len(op[o]._frame_numbers) * Len(op[o]._selected_channels)

\* C4: a render-trigger invocation that raises does not abort the batch: the
\* instance stays Running (or goes on to Finishing or Cancelled) with the
\* failed unit counted as attempted.
C4_ThrowDoesNotAbort ==
    \A o \in Ops :
        op[o].ret = "raised" =>
            /\ op[o].state \in {"Running", "Finishing", "Cancelled"}
            /\ completed_renders(op[o]) = Len(rendered[o])

\* C5: an execute that returns CANCELLED for a frame list that does not parse
\* has written no host setting, captured nothing on the instance, added no
\* timer and triggered no render.
C5_ParseErrorTouchesNothing ==
    [][\A o \in Ops :
        (op[o].ret = "none" /\ op'[o].ret = "CANCELLED"
            /\ report'[o].msg \in ParseErrors)
        => /\ settings' = settings
           /\ timers' = timers
           /\ rendered' = rendered
           /\ op'[o] = [op[o] EXCEPT !.ret = "CANCELLED"]]_vars

C5_Witness ==
    \E o \in Ops :
        /\ op[o].ret = "CANCELLED"
        /\ report[o].msg \in ParseErrors
        /\ file_format \in disallowed_formats
        /\ ~use_persistent_data

\* C6: the count a cancelled batch reports is the number of render-trigger
\* invocations it has performed, and is at most F*C.
C6_CancelCount ==
    \A o \in Ops :
        op[o].state = "Cancelled" =>
            /\ report[o].completed = Len(rendered[o])
            /\ report[o].completed
                  <= Len(op[o]._frame_numbers) * Len(op[o]._selected_channels)

C6_Witness ==
    \E o \in Ops :
        /\ op[o].state = "Cancelled"
        /\ report[o].completed = 2
        /\ report[o].total = 4

\* The tokens of a frame list as the grammar reads them: split at the
\* commas, surrounding whitespace dropped.
Tokens(frame_list) ==
    LET toks == Split(Strip(frame_list), ",") IN
    [i \in 1..Len(toks) |-> Strip(toks[i])]

HyphenCount(t) == Cardinality({i \in 1..Len(t) : t[i] = "-"})

IsSingle(t) == HyphenCount(t) = 0 /\ IntOk(t)

\* Two non-empty integer parts separated by one hyphen.
IsRange(t) ==
    /\ HyphenCount(t) = 1
    /\ IntOk(Split(t, "-")[1])
    /\ IntOk(Split(t, "-")[2])

RangeStart(t) == IntValue(Split(t, "-")[1])
RangeEnd(t) == IntValue(Split(t, "-")[2])

IsReversed(t) == IsRange(t) /\ RangeStart(t) > RangeEnd(t)

TokenValid(t) ==
    t = <<>> \/ IsSingle(t) \/ (IsRange(t) /\ RangeStart(t) <= RangeEnd(t))

\* The integers a token names.
Named(t) ==
    IF t # <<>> /\ IsSingle(t) THEN {IntValue(t)}
    ELSE IF IsRange(t) THEN RangeStart(t)..RangeEnd(t)
    ELSE {}

\* The first token that is not valid, or <<>> when every token is valid.
FailingToken(frame_list) ==
    LET toks == Tokens(frame_list)
        I == {i \in 1..Len(toks) : ~TokenValid(toks[i])}
    IN IF I = {} THEN <<>> ELSE toks[CHOOSE i \in I : \A j \in I : i <= j]

\* C7: the frame list of an accepted text is the union of the integers and
\* inclusive ranges its tokens name, strictly ascending.
C7_UnionAscending ==
    \A o \in Ops :
        op[o].state = "Running" =>
            LET toks == Tokens(op[o].frame_list) IN
            /\ Ascending(op[o]._frame_numbers)
            /\ SeqToSet(op[o]._frame_numbers)
                  = UNION {Named(toks[i]) : i \in 1..Len(toks)}

C7_Witness ==
    \E o \in Ops :
        /\ op[o].state = "Running"
        /\ op[o].frame_list = <<"1", ",", "0", "-", "1">>
        /\ op[o]._frame_numbers = <<0, 1>>

\* C8 as stated: a failing token that contains "-" and is not two non-empty
\* integer parts separated by one hyphen is reported as an invalid range
\* format.
C8_MalformedIsRangeFormat ==
    \A o \in Ops :
        LET t == FailingToken(op[o].frame_list) IN
        (op[o].ret = "CANCELLED" /\ Contains(t, "-") /\ ~IsRange(t))
            => report[o].msg = "Invalid range format"

\* C8 amended: a failing token with more than one hyphen is reported as an
\* invalid range format; one with a single hyphen and a missing or
\* non-integer part is reported as an invalid frame number or range, the
\* report of a token without hyphen that is no integer.
C8_HyphenReports ==
    \A o \in Ops :
        LET t == FailingToken(op[o].frame_list) IN
        /\ (op[o].ret = "CANCELLED" /\ HyphenCount(t) > 1)
              => report[o].msg = "Invalid range format"
        /\ (op[o].ret = "CANCELLED" /\ HyphenCount(t) = 1 /\ ~IsRange(t))
              => report[o].msg = "Invalid frame number or range"
        /\ (op[o].ret = "CANCELLED" /\ t # <<>> /\ HyphenCount(t) = 0)
              => report[o].msg = "Invalid frame number or range"

C8_Witness ==
    \E o \in Ops :
        /\ op[o].ret = "CANCELLED"
        /\ op[o].frame_list = <<"1", "-", "0", "-", "1">>
        /\ report[o].msg = "Invalid range format"

\* C9: a range token with start > end, after valid tokens only, makes execute
\* report an invalid range and return CANCELLED: no frame list is kept, no
\* timer is added, the instance never runs.
C9_ReversedRange ==
    \A o \in Ops :
        LET toks == Tokens(op[o].frame_list) IN
        (op[o].ret # "none"
            /\ \E i \in 1..Len(toks) :
                  IsReversed(toks[i]) /\ \A j \in 1..(i - 1) : TokenValid(toks[j]))
        => /\ op[o].ret = "CANCELLED"
           /\ report[o].msg = "Invalid range"
           /\ op[o].state = "Idle"
           /\ op[o]._frame_numbers = <<>>
           /\ timers = {}

C9_Witness ==
    \E o \in Ops :
        /\ op[o].ret = "CANCELLED"
        /\ op[o].frame_list = <<"0", ",", "1", "-", "0">>
        /\ report[o].msg = "Invalid range"

\* C10 as stated: the frame list of a running batch is non-empty and every
\* frame number is at least 1.
C10_PositiveFrames ==
    \A o \in Ops :
        op[o].state = "Running" =>
            /\ op[o]._frame_numbers # <<>>
            /\ \A i \in 1..Len(op[o]._frame_numbers) : op[o]._frame_numbers[i] >= 1

\* C10 amended: the frame list of a running batch is non-empty and every
\* frame number is at least 0.
C10_NonNegativeFrames ==
    \A o \in Ops :
        op[o].state = "Running" =>
            /\ op[o]._frame_numbers # <<>>
            /\ \A i \in 1..Len(op[o]._frame_numbers) : op[o]._frame_numbers[i] >= 0

C10_Witness ==
    \E o \in Ops :
        /\ op[o].state = "Running"
        /\ op[o].frame_list = <<"0">>
        /\ op[o]._frame_numbers = <<0>>

\* "(Channel)"
ChannelTokenText == <<"(", "C", "h", "a", "n", "n", "e", "l", ")">>

\* C11: a call whose pattern does not contain the literal token (Channel)
\* returns the same text for every channel name, None included.
C11_ChannelNeverInfluences ==
    (filename_call.result # None /\ ~Occurs(ChannelTokenText, filename_call.pattern))
        => \A ch \in NameChannels : GenerateWith(filename_call, ch) = filename_call.result

C13_SeparatorsKept ==
    (filename_call.result # None
        /\ filename_call.pattern = <<"(", "S", "t", "a", "r", "t", ":", "y", "y", "y", "y", "M", "M", "d", "d", "_", "H", "H", ":", "m", "m", ":", "s", "s", ")">>
        /\ filename_call.start_time = 0)
    => filename_call.result = <<"2", "0", "2", "5", "1", "0", "1", "8", "_", "1", "7", ":", "2", "1", ":", "1", "8">>

\* The unit of the last render-trigger invocation of instance o.
LastUnit(o) == rendered[o][Len(rendered[o])]

\* The step is a tick of instance o that invokes the render trigger.
RenderTick(o) == Len(rendered'[o]) = Len(rendered[o]) + 1

\* The step is a tick of instance o whose render-trigger invocation returns.
RenderReturns(o) == RenderTick(o) /\ op'[o].ret = "PASS_THROUGH"

\* The output filepath of the unit of instance self with the (End:...)
\* tokens rendering the time t.
PathWithEnd(self, unit, t) ==
    PathJoin(self._output_folder,
             generate_filename_from_pattern(
                 filename_pattern, self._blend_filename, camera, unit[1],
                 self._render_start_time, t,
                 ChannelArgument(filename_pattern, self._selected_channels, unit[2]),
                 view_layers[1].name, t))

\* C14: the (End:...) token of a unit's output filename renders a time that
\* is not earlier than the moment the unit's render-trigger invocation
\* returned.
C14_EndTokenIsRenderEnd ==
    [][\A o \in Ops :
        (RenderReturns(o) /\ Occurs(<<"(", "E", "n", "d", ":">>, filename_pattern))
        => \E t \in now'..(MaxClock + 1) :
              filepath' = PathWithEnd(op[o], LastUnit(o)', t)]_vars

\* C15: a request made with two or more enabled channels and a pattern
\* without (Channel) is rejected: execute returns CANCELLED, the instance
\* never runs and triggers no render.
C15_ChannelTokenRequired ==
    \A o \in Ops :
        (op[o].ret # "none"
            /\ ~validate_channel_pattern(filename_pattern,
                                         Len(get_selected_channels(view_layers)) > 1))
        => /\ op[o].ret = "CANCELLED"
           /\ op[o].state = "Idle"
           /\ rendered[o] = <<>>

\* C16: at most one batch is Running at any time, and at most one timer is
\* held.
C16_SingleBatch ==
    /\ Cardinality({o \in Ops : op[o].state = "Running"}) <= 1
    /\ Cardinality(timers) <= 1

\* C17: a set operation that returns FINISHED leaves a preference file that
\* holds the new values, whatever the file was before: a load then yields
\* the pattern and the folder that were set.
C17_SetWritesFile ==
    [][(pref_op'.kind \in {"set_filename_pattern", "set_output_folder"}
          /\ pref_op'.ret = "FINISHED")
       => /\ prefs_file'.exists /\ prefs_file'.readable
          /\ prefs_file'.filename_pattern = filename_pattern'
          /\ prefs_file'.default_output_folder = output_folder_path'
          /\ LoadedPattern(prefs_file', DefaultPattern) = filename_pattern']_vars

\* C18: a tick whose render-trigger invocation returns, but that finds no
\* candidate file and whose fallback save fails, ends as every rendering
\* tick does: the instance stays Running, the channel cursor is one further,
\* the compositor is as before the tick; and an instance is Finishing only
\* after F*C invocations.
C18_SkippedUnitContinues ==
    [][\A o \in Ops :
        /\ (RenderReturns(o) /\ ~file_created'[o])
           => /\ op'[o].state = "Running"
              /\ op'[o]._current_channel_index = op[o]._current_channel_index + 1
              /\ op'[o]._current_frame_index = op[o]._current_frame_index
              /\ use_nodes' = use_nodes
              /\ node_tree' = node_tree
        /\ op'[o].state = "Finishing"
           => Len(rendered'[o]) = total_renders(op'[o])]_vars

C18_Witness ==
    \E o \in Ops :
        /\ op[o].state = "Finishing"
        /\ ~file_created[o]
        /\ Len(rendered[o]) = 4
        /\ LastUnit(o)[2] = <<"D", "e", "p", "t", "h">>
        /\ node_tree = {"FRH_TempRenderLayers", "FRH_TempComposite"}

\* C19: when the configured output folder cannot be created, execute
\* reports a warning and the batch runs with the blend file's directory or
\* the working directory as its output folder.
C19_FolderFailureFallsBack ==
    \A o \in Ops :
        report[o].msg = "Error during rendering"
        => /\ report[o].level = "WARNING"
           /\ op[o].state = "Running"
           /\ op[o]._output_folder \in {Dirname(blend_filepath), Cwd}

\* C20: after a tick that renders a unit the compositor's nodes and its
\* use_nodes flag are what they were before the tick.
C20_CompositorUntouched ==
    [][\A o \in Ops :
        RenderTick(o) => (node_tree' = node_tree /\ use_nodes' = use_nodes)]_vars

\* C21: the candidate paths begin with the expected path and hold the path
\* without the extension the pattern's name was given and the path with the
\* extension in capitals; a file the host wrote at either of the two is
\* found by the probe, and the fallback save is not tried.
C21_CandidatesDetected ==
    probe_call.done /\ "files" \in DOMAIN probe_call
    => LET c == probe_call
           full_output_path == PathJoin(c.output_folder, c.filename \o c.extension)
           bare == PathJoin(c.output_folder, c.filename)
           upper == bare \o Upper(c.extension)
           candidates == SeqToSet(c.result.possible_paths)
       IN  /\ c.result.possible_paths[1] = full_output_path
           /\ bare \in candidates
           /\ upper \in candidates
           /\ c.files \cap {bare, upper} # {}
              => c.result.file_created /\ ~c.result.fallback

\* C22: Finishing and Cancelled are terminal and release the batch's timer
\* exactly once: the step that leaves Running removes the timer the batch
\* added, and from then on the instance, the units it has rendered and the
\* ticks it has handled stay as they are and its timer stays removed.
C22_TerminalReleasesTimer ==
    [][\A o \in Ops :
        /\ op[o].state = "Running" /\ op'[o].state \in {"Finishing", "Cancelled"}
           => o \in timers /\ o \notin timers'
        /\ op[o].state \in {"Finishing", "Cancelled"}
           => /\ o \notin timers /\ o \notin timers'
              /\ op'[o] = op[o]
              /\ rendered'[o] = rendered[o]
              /\ ticks'[o] = ticks[o]]_vars

\* One batch has finished and the other was cancelled after it had
\* rendered; no timer is left.
C22_Witness ==
    /\ op["op1"].state = "Finishing"
    /\ op["op2"].state = "Cancelled"
    /\ Len(rendered["op2"]) >= 1
    /\ ticks["op1"] > Len(rendered["op1"])
    /\ timers = {}

\* C23: a tick invokes the render trigger at most once; the tick that finds
\* the channels of the frame exhausted only moves the frame cursor on by one
\* and sets the channel cursor to zero, renders nothing and writes no render
\* setting; the frame cursor stays within 0..F and the channel cursor
\* within 0..C.
C23_OneStepPerTick ==
    [][\A o \in Ops :
        LET self == op[o]
            F == Len(self._frame_numbers)
            C == Len(self._selected_channels)
        IN  /\ Len(rendered'[o]) <= Len(rendered[o]) + 1
            /\ self._current_frame_index \in 0..F
            /\ self._current_channel_index \in 0..C
            /\ op'[o]._current_frame_index \in 0..Len(op'[o]._frame_numbers)
            /\ op'[o]._current_channel_index \in 0..Len(op'[o]._selected_channels)
            /\ ( /\ ticks'[o] = ticks[o] + 1
                 /\ self._current_frame_index < F
                 /\ self._current_channel_index >= C )
               => /\ op'[o] = [self EXCEPT
                                 !._current_frame_index = self._current_frame_index + 1,
                                 !._current_channel_index = 0,
                                 !.ret = "PASS_THROUGH"]
                  /\ rendered'[o] = rendered[o]
                  /\ settings' = settings
                  /\ compositor' = compositor]_vars

\* The tick after the two channels of the first of two frames has moved the
\* cursors to the second frame.
C23_Witness ==
    \E o \in Ops :
        /\ op[o].state = "Running"
        /\ Len(op[o]._frame_numbers) = 2
        /\ Len(op[o]._selected_channels) = 2
        /\ op[o]._current_frame_index = 1
        /\ op[o]._current_channel_index = 0
        /\ Len(rendered[o]) = 2
        /\ ticks[o] = 3

\* C24: when no cancel signal arrives and every render invocation returns,
\* a Running batch reaches Finishing, and it does so on its
\* (F * (C + 1) + 1)-th tick.
C24_FinishesOnCountedTick ==
    \A o \in Requests :
        /\ [](op[o].state = "Finishing"
              => ticks[o] = Len(op[o]._frame_numbers)
                              * (Len(op[o]._selected_channels) + 1) + 1)
        /\ [](op[o].state \notin {"Cancelled", "Aborted"})
           => (op[o].state = "Running" ~> op[o].state = "Finishing")

\* Two frames of two channels have finished on the seventh tick.
C24_Witness ==
    \E o \in Requests :
        /\ op[o].state = "Finishing"
        /\ Len(op[o]._frame_numbers) = 2
        /\ Len(op[o]._selected_channels) = 2
        /\ Len(rendered[o]) = 4
        /\ ticks[o] = 7

\* C25: empty tokens are skipped.  A text whose tokens are all empty is
\* refused with one of the two reports of an empty frame set; a text whose
\* non-empty tokens are all valid is accepted, whatever empty tokens and
\* surrounding blanks it has, and its frame list is what the non-empty
\* tokens name.
C25_EmptyTokensSkipped ==
    \A o \in Ops :
        op[o].ret # "none" =>
            LET toks == Tokens(op[o].frame_list)
                filled == {i \in 1..Len(toks) : toks[i] # <<>>}
            IN  /\ filled = {}
                   => /\ op[o].ret = "CANCELLED"
                      /\ op[o].state = "Idle"
                      /\ report[o].msg \in {"Please enter frame numbers",
                                            "No valid frame numbers found"}
                /\ (filled # {} /\ \A i \in filled : TokenValid(toks[i]))
                   => /\ op[o].state = "Running"
                      /\ Ascending(op[o]._frame_numbers)
                      /\ SeqToSet(op[o]._frame_numbers)
                            = UNION {Named(toks[i]) : i \in filled}

\* A text with empty tokens before, between and after two frames is
\* accepted with these two frames.
C25_Witness ==
    \E o \in Ops :
        /\ op[o].state = "Running"
        /\ op[o].frame_list = <<",", "1", ",", ",", "0">>
        /\ op[o]._frame_numbers = <<0, 1>>

\* C26: when a batch is Finishing or Cancelled every render setting it
\* wrote has the value it had before the batch: the current frame, the
\* output filepath, the image format, the persistence flag and the
\* use-file-extension flag.
C26_EverySettingRestored ==
    \A o \in Ops :
        op[o].state \in {"Finishing", "Cancelled"} => Settings = pre[o]

\* C27: when execute has returned without the batch running, the
\* persistence flag and the image format are what they were before the
\* request.
C27_RefusedRequestLeavesSettings ==
    \A o \in Ops :
        (op[o].state = "Idle" /\ op[o].ret # "none")
        => /\ use_persistent_data = pre[o].use_persistent_data
           /\ file_format = pre[o].file_format

\* C28: two different (frame, channel) units of a batch are not given the
\* same output path; stated for two units rendered one after the other,
\* whose paths are the values line 700 stores.
C28_DistinctUnitPaths ==
    [][\A o \in Ops :
        (RenderTick(o) /\ Len(rendered[o]) >= 1 /\ LastUnit(o)' # LastUnit(o))
        => op'[o]._last_saved_path # op[o]._last_saved_path]_vars

\* C29: when set-output-folder cannot create the folder and returns
\* CANCELLED, the output folder in memory is what it was before, and the
\* preference file is too.
C29_FailedSetKeepsFolder ==
    [][(pref_op'.kind = "set_output_folder" /\ pref_op'.ret = "CANCELLED")
        => /\ output_folder_path' = output_folder_path
           /\ prefs_file' = prefs_file]_vars

\* C30: filename_pattern is never the empty text, whatever file is loaded
\* and whatever text the set-pattern dialog is given.
C30_PatternNeverEmpty == filename_pattern # <<>>

\* A readable file whose filename_pattern entry is empty has been loaded:
\* the pattern is the default.
C30_Witness ==
    /\ pref_op.kind = "load"
    /\ prefs_file.exists /\ prefs_file.readable
    /\ prefs_file.filename_pattern = <<>>
    /\ filename_pattern = DefaultPattern
====
